---- MODULE Spec2Model ----
(***************************************************************************)
(* Model of the dummygen generation engine: the field registry             *)
(* (backend/fields.py) and the batch generator (backend/generator.py),     *)
(* and of the service around it: the per-client rate limiter               *)
(* (backend/rate_limit.py) and the /generate handler (backend/server.py).  *)
(*                                                                         *)
(* Conventions.                                                            *)
(*  - A Python string is a sequence of one-character strings, so that      *)
(*    split, strip and + are computed as Python computes them.             *)
(*  - A Python value is a record [kind, s, n]; kind is one of "none",      *)
(*    "str", "int", "date", "datetime".  A date is represented by the age  *)
(*    it implies on the day of generation (field n).                       *)
(*  - A dict is a function from key names to values.                       *)
(*  - The two random sources of the process are two state variables:       *)
(*    fakerRandom is the Random instance shared by every Faker object      *)
(*    (the one Faker.seed re-initializes), pyRandom is the state of the    *)
(*    module-level functions of Python's random module.  A draw reads the  *)
(*    state and advances it by one, modulo RandMod.                        *)
(*  - Time is counted in seconds since the start of the process; requests  *)
(*    is the dict of the rate limiter, now the clock datetime.now() reads. *)
(*  - http holds the /generate requests the server has accepted from the   *)
(*    network, one per connection: waiting for the handler, or answered.   *)
(*                                                                         *)
(* Three specifications share the state: Spec calls the engine directly,   *)
(* RateSpec calls the rate limiter directly, ServerSpec serves /generate   *)
(* requests that are in flight together.                                   *)
(***************************************************************************)
EXTENDS Integers, Sequences, FiniteSets, TLC

VARIABLES fakerRandom, pyRandom, call, result, previous,
          requests, now, limited, accepted, http

vars == <<fakerRandom, pyRandom, call, result, previous,
          requests, now, limited, accepted, http>>

engineVars == <<call, result, previous>>
limiterVars == <<requests, now, limited, accepted>>

(***************************************************************************)
(* Bounds of the model.                                                    *)
(***************************************************************************)
MaxCount == 2
MaxFields == 2
MaxSeed == 1
RandMod == 3
MaxConstraints == 2

RandStates == 0 .. (RandMod - 1)

(***************************************************************************)
(* Python values.                                                          *)
(***************************************************************************)
NoneVal == [kind |-> "none", s |-> <<>>, n |-> 0]
PyStr(chars) == [kind |-> "str", s |-> chars, n |-> 0]
PyInt(i) == [kind |-> "int", s |-> <<>>, n |-> i]
PyDate(age) == [kind |-> "date", s |-> <<>>, n |-> age]
PyDateTime(t) == [kind |-> "datetime", s |-> <<>>, n |-> t]
\* a list of strings (the elements of a random_element call)
PyList(items) == [kind |-> "list", s |-> items, n |-> 0]

EmptyDict == [k \in {} |-> NoneVal]

\* bool(v) for the values of the model
Truthy(v) ==
    CASE v.kind = "none" -> FALSE
      [] v.kind \in {"str", "list"} -> Len(v.s) > 0
      [] v.kind = "int" -> v.n # 0
      [] OTHER -> TRUE

\* str.split(sep) on a sequence of characters
RECURSIVE split(_, _)
split(s, sep) ==
    IF s = <<>> THEN << <<>> >>
    ELSE LET rest == split(Tail(s), sep) IN
         IF Head(s) = sep THEN << <<>> >> \o rest
         ELSE << <<Head(s)>> \o Head(rest) >> \o Tail(rest)

RECURSIVE lstrip(_)
lstrip(s) ==
    IF s # <<>> /\ Head(s) = " " THEN lstrip(Tail(s)) ELSE s

RECURSIVE rstrip(_)
rstrip(s) ==
    IF s # <<>> /\ s[Len(s)] = " " THEN rstrip(SubSeq(s, 1, Len(s) - 1)) ELSE s

\* str.strip()
strip(s) == rstrip(lstrip(s))

DigitChar(d) == <<"0", "1", "2", "3", "4", "5", "6", "7", "8", "9">>[d + 1]

RECURSIVE Digits(_)
Digits(i) ==
    IF i < 10 THEN <<DigitChar(i)>> ELSE Digits(i \div 10) \o <<DigitChar(i % 10)>>

\* date.isoformat() / datetime.isoformat(): the value rendered as a string
isoformat(v) ==
    IF v.kind = "date" THEN PyStr(<<"D">> \o Digits(v.n))
    ELSE PyStr(<<"T">> \o Digits(v.n))

\* hasattr(result, 'isoformat')
HasIsoformat(v) == v.kind \in {"date", "datetime"}

\* one draw of a random source: the state after it
Advance(r) == (r + 1) % RandMod

(***************************************************************************)
(* The Faker generators the registry refers to.  Each takes keyword        *)
(* arguments (a dict) and one draw d of the shared Faker random source.    *)
(***************************************************************************)
Get(d, k, default) == IF k \in DOMAIN d THEN d[k] ELSE default

\* the keyword parameters each generator declares
Params(m) ==
    CASE m = "email" -> {"safe", "domain"}
      [] m = "date_of_birth" -> {"tzinfo", "minimum_age", "maximum_age"}
      [] m = "date_time_this_year" -> {"before_now", "after_now", "tzinfo"}
      [] m = "random_element" -> {"elements"}
      [] OTHER -> {}

DefaultElements == PyList(<< <<"a">>, <<"b">>, <<"c">> >>)

\* the items random_element chooses among: a list's items, a string's characters
Items(v) == IF v.kind = "list" THEN v.s ELSE [i \in 1 .. Len(v.s) |-> <<v.s[i]>>]

\* the generator takes the call: every keyword is a parameter of it and the
\* values are ones it can work with; otherwise it raises
Accepts(m, args) ==
    /\ DOMAIN args \subseteq Params(m)
    /\ CASE m = "date_of_birth" ->
              LET lo == Get(args, "minimum_age", PyInt(0))
                  hi == Get(args, "maximum_age", PyInt(115))
              IN  /\ lo.kind = "int" /\ hi.kind = "int"
                  /\ lo.n >= 0 /\ hi.n >= 0 /\ lo.n <= hi.n
         [] m = "random_element" ->
              LET el == Get(args, "elements", DefaultElements)
              IN  el.kind \in {"str", "list"} /\ Len(el.s) > 0
         [] OTHER -> TRUE

FirstNames == << <<"A", "n", "n">>, <<"B", "o", "b">>, <<"C", "y">> >>
UserNames == << <<"u", "1">>, <<"u", "2">>, <<"u", "3">> >>
FreeDomain == <<"e", "x", ".", "o", "r", "g">>

Pick(items, d) == items[(d % Len(items)) + 1]

\* str(v), as an f-string renders it
Render(v) == IF v.kind = "str" THEN v.s ELSE Digits(v.n)

PhonePrefix(locale) ==
    CASE locale = <<"en_US">> -> <<"+", "1">>
      [] locale = <<"en_IN">> -> <<"+", "9", "1">>
      [] OTHER -> <<"0">>

\* the value an accepted call returns on draw d
Produce(m, locale, args, d) ==
    CASE m = "first_name" -> PyStr(Pick(FirstNames, d))
      [] m = "user_name" -> PyStr(Pick(UserNames, d))
      [] m = "email" ->
            IF Truthy(Get(args, "domain", NoneVal))
            THEN PyStr(Pick(UserNames, d) \o <<"@">> \o Render(args["domain"]))
            ELSE PyStr(Pick(UserNames, d) \o <<"@">> \o FreeDomain)
      [] m = "phone_number" -> PyStr(PhonePrefix(locale) \o <<DigitChar(d % 10)>>)
      [] m = "date_of_birth" ->
            LET lo == Get(args, "minimum_age", PyInt(0)).n
                hi == Get(args, "maximum_age", PyInt(115)).n
            IN  PyDate(lo + (d % (hi - lo + 1)))
      [] m = "date_time_this_year" -> PyDateTime(d)
      [] m = "random_element" ->
            PyStr(Pick(Items(Get(args, "elements", DefaultElements)), d))

\* method(**args) on a Faker object of the given locale: [ok, value, f]; a
\* rejected call raises before it draws
Invoke(m, locale, args, f) ==
    IF Accepts(m, args)
    THEN [ok |-> TRUE, value |-> Produce(m, locale, args, f), f |-> Advance(f)]
    ELSE [ok |-> FALSE, value |-> NoneVal, f |-> f]

(***************************************************************************)
(* FIELD_REGISTRY: the entries of the catalog that differ in how           *)
(* generate_field_value treats them.                                       *)
(***************************************************************************)
RegistryIds ==
    {"first_name", "gender", "email", "phone_us", "dob", "created_at", "enum"}

GenderElements ==
    PyList(<< <<"M", "a", "l", "e">>, <<"F", "e", "m", "a", "l", "e">>,
              <<"O", "t", "h", "e", "r">> >>)

Config(method, args, locale) ==
    [faker_method |-> method, faker_args |-> args, locale |-> locale]

FIELD_REGISTRY ==
    [t \in RegistryIds |->
        CASE t = "first_name" -> Config("first_name", EmptyDict, <<>>)
          [] t = "gender" ->
                Config("random_element", [k \in {"elements"} |-> GenderElements], <<>>)
          [] t = "email" -> Config("email", EmptyDict, <<>>)
          [] t = "phone_us" -> Config("phone_number", EmptyDict, <<"en_US">>)
          [] t = "dob" -> Config("date_of_birth", EmptyDict, <<>>)
          [] t = "created_at" -> Config("date_time_this_year", EmptyDict, <<>>)
          [] t = "enum" -> Config("random_element", EmptyDict, <<>>)]

(***************************************************************************)
(* generate_field_value(fake, field_type, constraints), fields.py.         *)
(* constraints is [given, map]: given is FALSE for None.  The result is    *)
(* what the call leaves behind: the value returned or the exception        *)
(* raised, the two random states, the branch taken (path) and the keyword  *)
(* arguments of every call of the registry's generator (invoked).          *)
(***************************************************************************)
None == [given |-> FALSE, map |-> EmptyDict]
Dict(d) == [given |-> TRUE, map |-> d]

Returned(value, f, p, path, invoked) ==
    [ok |-> TRUE, exc |-> "", msg |-> <<>>, value |-> value,
     f |-> f, p |-> p, path |-> path, invoked |-> invoked]

Raised(exc, msg, f, p, path, invoked) ==
    [ok |-> FALSE, exc |-> exc, msg |-> msg, value |-> NoneVal,
     f |-> f, p |-> p, path |-> path, invoked |-> invoked]

\* lines 600-603 and 606-609: result.isoformat() if it has one
Normalize(v) == IF HasIsoformat(v) THEN isoformat(v) ELSE v

\* {**faker_args, **args}
Merge(faker_args, args) ==
    [k \in (DOMAIN faker_args) \cup (DOMAIN args) |->
        IF k \in DOMAIN args THEN args[k] ELSE faker_args[k]]

\* {k: v for k, v in constraints.items() if v is not None}
NonNull(c) == [k \in {x \in DOMAIN c : c[x].kind # "none"} |-> c[k]]

\* GenericPath with a fallback that keeps the fixed arguments of the registry
GenericPathKeepsFixed(method, locale, faker_args, args, f, p) ==
    LET merged == Merge(faker_args, args)
        first == Invoke(method, locale, merged, f)
        again == Invoke(method, locale, faker_args, first.f)
    IN  IF first.ok
        THEN Returned(Normalize(first.value), first.f, p, "generic", <<merged>>)
        ELSE Returned(Normalize(again.value), again.f, p, "fallback",
                      <<merged, faker_args>>)

\* lines 595-609: the merged call, and the call without arguments when the
\* merged call raises
GenericPath(method, locale, faker_args, args, f, p) ==
    LET merged == Merge(faker_args, args)
        first == Invoke(method, locale, merged, f)
        again == Invoke(method, locale, EmptyDict, first.f)
    IN  IF first.ok
        THEN Returned(Normalize(first.value), first.f, p, "generic", <<merged>>)
        ELSE IF again.ok
        THEN Returned(Normalize(again.value), again.f, p, "fallback",
                      <<merged, EmptyDict>>)
        ELSE Raised("TypeError", <<"generator">>, again.f, p, "fallback",
                    <<merged, EmptyDict>>)

\* EmailDomainPath that leaves the address to the email generator
EmailDomainPathViaGenerator(locale, domain, f, p) ==
    LET made == Invoke("email", locale, EmptyDict, f)
    IN  Returned(made.value, made.f, p, "email_domain", <<EmptyDict>>)

\* lines 582-583: fake.user_name() + '@' + constraints['domain']
EmailDomainPath(locale, domain, f, p) ==
    LET user == Invoke("user_name", locale, EmptyDict, f)
    IN  IF domain.kind = "str"
        THEN Returned(PyStr(user.value.s \o <<"@">> \o domain.s), user.f, p,
                      "email_domain", <<>>)
        ELSE Raised("TypeError", <<"can only concatenate str">>, user.f, p,
                    "email_domain", <<>>)

\* EnumValuesPath that does not strip the tokens
EnumValuesPathNoStrip(values, f, p) ==
    IF values.kind # "str"
    THEN Raised("AttributeError", <<"split">>, f, p, "enum_values", <<>>)
    ELSE Returned(PyStr(Pick(split(values.s, ","), p)), f, Advance(p),
                  "enum_values", <<>>)

\* lines 584-586: random.choice of the stripped comma-separated tokens
EnumValuesPath(values, f, p) ==
    IF values.kind # "str"
    THEN Raised("AttributeError", <<"split">>, f, p, "enum_values", <<>>)
    ELSE LET parts == split(values.s, ",")
             tokens == [i \in 1 .. Len(parts) |-> strip(parts[i])]
         IN  Returned(PyStr(Pick(tokens, p)), f, Advance(p), "enum_values", <<>>)

\* lines 587-590: method(minimum_age=min_age, maximum_age=max_age)
DobPath(method, locale, c, f, p) ==
    LET args == [k \in {"minimum_age", "maximum_age"} |->
                    IF k = "minimum_age" THEN Get(c, "min_age", PyInt(18))
                    ELSE Get(c, "max_age", PyInt(90))]
        r == Invoke(method, locale, args, f)
    IN  IF r.ok
        THEN Returned(r.value, r.f, p, "dob_age", <<args>>)
        ELSE Raised(IF args["minimum_age"].kind = "int" /\ args["maximum_age"].kind = "int"
                    THEN "ValueError" ELSE "TypeError",
                    <<"age">>, r.f, p, "dob_age", <<args>>)

generate_field_value(field_type, constraints, f, p) ==
    IF field_type \notin DOMAIN FIELD_REGISTRY
    THEN Raised("ValueError", <<"Unknown field type: ", field_type>>, f, p,
                "unknown", <<>>)
    ELSE LET field_config == FIELD_REGISTRY[field_type]
             method == field_config.faker_method
             faker_args == field_config.faker_args
             locale == field_config.locale
             c == constraints.map
         IN  IF constraints.given /\ DOMAIN c # {}
             THEN IF field_type = "email" /\ "domain" \in DOMAIN c /\ Truthy(c["domain"])
                  THEN EmailDomainPath(locale, c["domain"], f, p)
                  ELSE IF field_type = "enum" /\ "values" \in DOMAIN c
                  THEN EnumValuesPath(c["values"], f, p)
                  ELSE IF field_type = "dob"
                  THEN DobPath(method, locale, c, f, p)
                  ELSE GenericPath(method, locale, faker_args, NonNull(c), f, p)
             ELSE GenericPath(method, locale, faker_args, EmptyDict, f, p)

(***************************************************************************)
(* generate_data(schema, count, seed), generator.py.                       *)
(* A schema is the sequence of the dict's items, <<field_name, field_def>>,*)
(* in insertion order, the field names distinct.  A field_def is the bare  *)
(* string (form "str") or the object form: its 'type' entry, when it has   *)
(* one, and the rest of its entries.  A record is the sequence of its      *)
(* items in insertion order.                                               *)
(***************************************************************************)
NoType == "None"

Shorthand(t) == [form |-> "str", hasType |-> TRUE, type |-> t, rest |-> EmptyDict]
Object(t, rest) == [form |-> "obj", hasType |-> TRUE, type |-> t, rest |-> rest]
Untyped(rest) == [form |-> "obj", hasType |-> FALSE, type |-> NoType, rest |-> rest]

NoSeed == [given |-> FALSE, n |-> 0]
SeedOf(n) == [given |-> TRUE, n |-> n]

\* lines 33-38: field_type and constraints of a schema entry
FieldType(field_def) ==
    IF field_def.form = "str" THEN field_def.type
    ELSE IF field_def.hasType THEN field_def.type ELSE NoType

Constraints(field_def) ==
    IF field_def.form = "str" THEN None ELSE Dict(field_def.rest)

\* Faker.seed(seed): the state of the shared random source after it
FakerSeed(n) == n % RandMod

SeedEvent == [op |-> "seed", rec |-> 0, field |-> ""]
ResolveEvent(rec, field) == [op |-> "resolve", rec |-> rec, field |-> field]

\* Op(v), with v evaluated once: a loop state is read many times by the next
\* pass, and must not be recomputed at each read
Bind(v, Op(_)) == CHOOSE y \in {Op(x) : x \in {v}} : TRUE

\* Assign that puts the new key first in the record
AssignFirst(st, field_name, r) ==
    [st EXCEPT !.ok = r.ok, !.exc = r.exc, !.msg = r.msg, !.f = r.f, !.p = r.p,
               !.record = IF r.ok THEN <<<<field_name, r.value>>>> \o @ ELSE @,
               !.trace = Append(@, ResolveEvent(st.rec, field_name))]

\* line 41: record[field_name] = generate_field_value(fake, field_type, constraints)
Assign(st, field_name, r) ==
    [st EXCEPT !.ok = r.ok, !.exc = r.exc, !.msg = r.msg, !.f = r.f, !.p = r.p,
               !.record = IF r.ok THEN Append(@, <<field_name, r.value>>) ELSE @,
               !.trace = Append(@, ResolveEvent(st.rec, field_name))]

\* lines 31-41: one pass of the inner loop, for the schema entry item
FieldStep(item, st) ==
    Bind(generate_field_value(FieldType(item[2]), Constraints(item[2]), st.f, st.p),
         LAMBDA r : Assign(st, item[1], r))

\* lines 31-41: the fields of one record, from field i on; an exception ends it
RECURSIVE FieldLoop(_, _, _)
FieldLoop(schema, i, st) ==
    IF i > Len(schema) \/ ~st.ok THEN st
    ELSE Bind(FieldStep(schema[i], st), LAMBDA next : FieldLoop(schema, i + 1, next))

\* line 43: records.append(record), when the inner loop ended without exception
AppendRecord(st) ==
    IF st.ok THEN [st EXCEPT !.records = Append(@, st.record)] ELSE st

\* lines 29-43: one pass of the outer loop, for record k
RecordStep(schema, k, st) ==
    Bind(FieldLoop(schema, 1, [st EXCEPT !.record = <<>>, !.rec = k]), AppendRecord)

\* lines 29-43: the records, from record k on
RECURSIVE RecordLoop(_, _, _, _)
RecordLoop(schema, count, k, st) ==
    IF k > count \/ ~st.ok THEN st
    ELSE Bind(RecordStep(schema, k, st),
              LAMBDA next : RecordLoop(schema, count, k + 1, next))

\* what the caller of generate_data gets: the list, or the exception alone
Outcome(st) ==
    [ok |-> st.ok, exc |-> st.exc, msg |-> st.msg,
     records |-> IF st.ok THEN st.records ELSE <<>>,
     f |-> st.f, p |-> st.p, trace |-> st.trace]

\* Faker.seed(seed) called without the test of line 22: with seed None the
\* shared random source is re-initialized too
generate_data_always_seeding(schema, count, seed, f, p) ==
    LET start == [ok |-> TRUE, exc |-> "", msg |-> <<>>,
                  f |-> FakerSeed(seed.n),
                  p |-> p, rec |-> 0, record |-> <<>>, records |-> <<>>,
                  trace |-> <<SeedEvent>>]
    IN  Bind(RecordLoop(schema, count, 1, start), Outcome)
generate_data(schema, count, seed, f, p) ==
    LET start == [ok |-> TRUE, exc |-> "", msg |-> <<>>,
                  f |-> IF seed.given THEN FakerSeed(seed.n) ELSE f,
                  p |-> p, rec |-> 0, record |-> <<>>, records |-> <<>>,
                  trace |-> IF seed.given THEN <<SeedEvent>> ELSE <<>>]
    IN  Bind(RecordLoop(schema, count, 1, start), Outcome)

(***************************************************************************)
(* The inputs.                                                             *)
(***************************************************************************)
FieldNames == {"a", "b", "c"}

CsvText == PyStr(<<"A", ",", " ", "B", " ", ",", "C">>)
DomainText == PyStr(<<"t", ".", "c">>)

ConstraintNames == {"domain", "values", "min_age", "max_age", "elements", "bogus"}
ConstraintValues == {NoneVal, PyStr(<<>>), DomainText, CsvText, PyInt(17)}

ConstraintDicts ==
    UNION {[S -> ConstraintValues] :
              S \in {T \in SUBSET ConstraintNames : Cardinality(T) <= MaxConstraints}}

UnknownTypes == {"not_a_real_type", NoType}

\* the schema entries of the batches
BatchDefs ==
    {Shorthand("first_name"), Shorthand("phone_us"), Shorthand("not_a_real_type"),
     Untyped(EmptyDict),
     Object("enum", [k \in {"values"} |-> CsvText]),
     Object("dob", [k \in {"max_age"} |-> PyInt(17)])}

NameSeqs(n) == {ns \in [1 .. n -> FieldNames] : \A i, j \in 1 .. n : ns[i] = ns[j] => i = j}

Schemas ==
    UNION {{[i \in 1 .. n |-> <<ns[i], ds[i]>>] :
               ns \in NameSeqs(n), ds \in [1 .. n -> BatchDefs]} : n \in 0 .. MaxFields}

Seeds == {NoSeed} \cup {SeedOf(n) : n \in 0 .. MaxSeed}

(***************************************************************************)
(* The rate limiter (backend/rate_limit.py).  requests maps a client key   *)
(* to the list of the times of its recorded requests, oldest first.        *)
(***************************************************************************)
\* timedelta(minutes=1), in seconds
window == 60
\* requests per minute
max_requests == 10

\* the last second of the clock
MaxNow == 60

\* request.client of a connection
Peer(host) == [present |-> TRUE, host |-> host]
NoPeer == [present |-> FALSE, host |-> ""]
Clients == {Peer("10.0.0.1"), NoPeer}

\* line 25: the key of a request
ClientIp(client) == IF client.present THEN client.host ELSE "unknown"

\* lines 34-37 and 53-56: the entries of a list that are inside the window at t
Fresh(times, t) == SelectSeq(times, LAMBDA req_time : t - req_time < window)

Accepted(reqs) == [ok |-> TRUE, status |-> 200, detail |-> <<>>, requests |-> reqs]
TooManyRequests(reqs) ==
    [ok |-> FALSE, status |-> 429,
     detail |-> <<"Rate limit exceeded. Please try again later.">>, requests |-> reqs]

\* lines 40-47 of check_rate_limit: the limit is compared, then the time recorded
RecordOrRejectKeepingAll(reqs, client_ip, kept, t) ==
    IF Len(reqs[client_ip]) >= max_requests
    THEN TooManyRequests(reqs)
    ELSE Accepted([reqs EXCEPT ![client_ip] = Append(kept, t)])
RecordOrReject(reqs, client_ip, kept, t) ==
    IF Len(kept) >= max_requests
    THEN TooManyRequests([reqs EXCEPT ![client_ip] = kept])
    ELSE Accepted([reqs EXCEPT ![client_ip] = Append(kept, t)])

\* check_rate_limit(request) at time t: the HTTPException or None, and the dict
check_rate_limit(reqs, client, t) ==
    LET client_ip == ClientIp(client)
        known == IF client_ip \in DOMAIN reqs THEN reqs
                 ELSE [ip \in DOMAIN reqs \cup {client_ip} |->
                          IF ip \in DOMAIN reqs THEN reqs[ip] ELSE <<>>]
    IN  RecordOrReject(known, client_ip, Fresh(known[client_ip], t), t)

\* cleanup_old_entries() at time t: the dict after it
cleanup_old_entries(reqs, t) ==
    LET live == {ip \in DOMAIN reqs : Fresh(reqs[ip], t) # <<>>}
    IN  [ip \in live |-> Fresh(reqs[ip], t)]

NoRequests == [ip \in {} |-> <<>>]
NoCheck == [op |-> "none", ip |-> "", ok |-> TRUE, status |-> 0]

InitLimiter ==
    /\ requests = NoRequests
    /\ now = 0
    /\ limited = NoCheck
    /\ accepted = NoRequests

(***************************************************************************)
(* Output formatting (backend/formatter.py).                               *)
(***************************************************************************)
\* str(v), as csv.DictWriter writes a value
Str(v) ==
    CASE v.kind = "str" -> v.s
      [] v.kind = "int" -> Digits(v.n)
      [] v.kind \in {"date", "datetime"} -> isoformat(v).s
      [] OTHER -> <<>>

\* the rows of the text: the header, then one row of cells per record
format_as_csv(data) ==
    IF data = <<>> THEN <<>>
    ELSE LET fieldnames == [i \in 1 .. Len(data[1]) |-> data[1][i][1]]
             Row(record) == [i \in 1 .. Len(record) |-> Str(record[i][2])]
         IN  <<fieldnames>> \o [k \in 1 .. Len(data) |-> Row(data[k])]

(***************************************************************************)
(* The /generate handler (backend/server.py).  The handler is a coroutine  *)
(* without a suspension point: the event loop runs it from its first line  *)
(* to its return or exception before it runs anything else.                *)
(***************************************************************************)
\* the connections the server serves together
MaxInFlight == 2
Connections == 1 .. MaxInFlight

Formats == {"json", "csv", "xml"}

\* the clients of the requests that are in flight together
ServerClients == {Peer("10.0.0.1")}

\* the schemas of the request bodies
ServerSchemas ==
    { <<<<"a", Shorthand("first_name")>>>>,
      <<<<"a", Object("enum", [k \in {"values"} |-> CsvText])>>>>,
      <<<<"a", Shorthand("first_name")>>, <<"b", Shorthand("not_a_real_type")>>>> }

\* a request body that passed validation
GenerateRequest ==
    [schema : ServerSchemas, count : 1 .. MaxCount, format : Formats, seed : Seeds]

NoError == [exc |-> "", msg |-> <<>>]

\* what the client gets, with the exception generate_data raised (if any) and
\* the state of the process after the handler
Reply(status, detail, media, data, content, e, reqs, f, p) ==
    [status |-> status, detail |-> detail, media |-> media,
     data |-> data, count |-> Len(data), content |-> content,
     e |-> e, requests |-> reqs, f |-> f, p |-> p]

\* lines 100-122: generate_data and the response made of its outcome
Respond(body, r, reqs) ==
    IF ~r.ok
    THEN Reply(400, <<"Generation error: ">> \o r.msg, "application/json", <<>>, <<>>,
               [exc |-> r.exc, msg |-> r.msg], reqs, r.f, r.p)
    ELSE IF body.format = "csv"
    THEN Reply(200, <<>>, "text/csv", <<>>, format_as_csv(r.records),
               NoError, reqs, r.f, r.p)
    ELSE Reply(200, <<>>, "application/json", r.records, <<>>,
               NoError, reqs, r.f, r.p)

\* lines 92-106: after the rate limit, the format is validated and the data made
Serve(body, rl, f, p) ==
    IF ~rl.ok
    THEN Reply(rl.status, rl.detail, "application/json", <<>>, <<>>,
               NoError, rl.requests, f, p)
    ELSE IF body.format \notin {"json", "csv"}
    THEN Reply(400, <<"Format must be 'json' or 'csv'">>, "application/json",
               <<>>, <<>>, NoError, rl.requests, f, p)
    ELSE \* Python evaluates the call once
         Bind(generate_data(body.schema, body.count, body.seed, f, p),
              LAMBDA r : Respond(body, r, rl.requests))

\* generate(request, body) at time t
generate(client, body, reqs, t, f, p) ==
    Bind(check_rate_limit(reqs, client, t), LAMBDA rl : Serve(body, rl, f, p))

NoBody == [schema |-> <<>>, count |-> 0, format |-> "", seed |-> NoSeed]
NoReply == Reply(0, <<>>, "", <<>>, <<>>, NoError, NoRequests, 0, 0)
Closed == [state |-> "closed", client |-> NoPeer, body |-> NoBody,
           alone |-> NoReply, response |-> NoReply]

InitServer == http = [c \in Connections |-> Closed]

(***************************************************************************)
(* The state machine.  A call runs to completion (the code has no          *)
(* suspension point); its inputs and its outcome stay in call and result   *)
(* until the caller drops them.  A caller that makes the same call of      *)
(* generate_data again keeps what the call before returned in previous.    *)
(***************************************************************************)
Idle == [op |-> "idle"]
NoResult == [ok |-> TRUE, exc |-> "", msg |-> <<>>]
NoPrevious == [given |-> FALSE, ok |-> TRUE, records |-> <<>>]

Init ==
    /\ fakerRandom \in RandStates
    /\ pyRandom \in RandStates
    /\ call = Idle
    /\ result = NoResult
    /\ previous = NoPrevious
    /\ InitLimiter
    /\ InitServer

\* a call of generate_data
GenerateData ==
    /\ call.op = "idle"
    /\ \E schema \in Schemas, count \in 1 .. MaxCount, seed \in Seeds :
       \E r \in {generate_data(schema, count, seed, fakerRandom, pyRandom)} :
          /\ call' = [op |-> "generate", schema |-> schema, count |-> count,
                      seed |-> seed, f0 |-> fakerRandom, p0 |-> pyRandom]
          /\ result' = [ok |-> r.ok, exc |-> r.exc, msg |-> r.msg,
                        records |-> r.records, trace |-> r.trace]
          /\ fakerRandom' = r.f
          /\ pyRandom' = r.p
          /\ previous' = NoPrevious
          /\ UNCHANGED <<limiterVars, http>>

\* the same call of generate_data once more, in the state the process is in now
Repeat ==
    /\ call.op = "generate"
    /\ \E r \in {generate_data(call.schema, call.count, call.seed,
                                fakerRandom, pyRandom)} :
          /\ call' = [call EXCEPT !.f0 = fakerRandom, !.p0 = pyRandom]
          /\ result' = [ok |-> r.ok, exc |-> r.exc, msg |-> r.msg,
                        records |-> r.records, trace |-> r.trace]
          /\ fakerRandom' = r.f
          /\ pyRandom' = r.p
          /\ previous' = [given |-> TRUE, ok |-> result.ok, records |-> result.records]
          /\ UNCHANGED <<limiterVars, http>>

\* a call of generate_field_value with the process's default Faker object
Resolve ==
    /\ call.op = "idle"
    /\ \E field_type \in RegistryIds \cup UnknownTypes,
          constraints \in {None} \cup {Dict(d) : d \in ConstraintDicts} :
       \E r \in {generate_field_value(field_type, constraints, fakerRandom, pyRandom)} :
          /\ call' = [op |-> "resolve", field_type |-> field_type,
                      constraints |-> constraints,
                      f0 |-> fakerRandom, p0 |-> pyRandom]
          /\ result' = [ok |-> r.ok, exc |-> r.exc, msg |-> r.msg,
                        value |-> r.value, path |-> r.path, invoked |-> r.invoked]
          /\ fakerRandom' = r.f
          /\ pyRandom' = r.p
          /\ previous' = NoPrevious
          /\ UNCHANGED <<limiterVars, http>>

\* the caller is done with the outcome of the call
Drop ==
    /\ call.op # "idle"
    /\ call' = Idle
    /\ result' = NoResult
    /\ previous' = NoPrevious
    /\ UNCHANGED <<fakerRandom, pyRandom, limiterVars, http>>

Next == GenerateData \/ Repeat \/ Resolve \/ Drop

Spec == Init /\ [][Next]_vars

(***************************************************************************)
(* The rate limiter called directly.  The clock never runs backwards; it   *)
(* advances by half a window, so that a recorded request is inside the     *)
(* window at age 0 and window/2 and outside it at age window.  accepted    *)
(* keeps, per client key, the times of all the requests that were let      *)
(* through: it is what the limiter is meant to count, kept apart from the  *)
(* dict the limiter maintains.                                             *)
(***************************************************************************)
Lookup(reqs, ip) == IF ip \in DOMAIN reqs THEN reqs[ip] ELSE <<>>

Remember(hist, ip, t) ==
    [k \in DOMAIN hist \cup {ip} |-> IF k = ip THEN Append(Lookup(hist, ip), t) ELSE hist[k]]

RateInit ==
    /\ fakerRandom = 0
    /\ pyRandom = 0
    /\ call = Idle
    /\ result = NoResult
    /\ previous = NoPrevious
    /\ InitLimiter
    /\ InitServer

\* a call of rate_limiter.check_rate_limit
CheckRateLimit ==
    /\ \E client \in Clients :
       \E rl \in {check_rate_limit(requests, client, now)} :
          /\ requests' = rl.requests
          /\ limited' = [op |-> "check", ip |-> ClientIp(client),
                         ok |-> rl.ok, status |-> rl.status]
          /\ accepted' = IF rl.ok THEN Remember(accepted, ClientIp(client), now)
                         ELSE accepted
    /\ UNCHANGED <<fakerRandom, pyRandom, engineVars, now, http>>

\* a call of rate_limiter.cleanup_old_entries
CleanupOldEntries ==
    /\ requests' = cleanup_old_entries(requests, now)
    /\ limited' = [op |-> "cleanup", ip |-> "", ok |-> TRUE, status |-> 0]
    /\ UNCHANGED <<fakerRandom, pyRandom, engineVars, now, accepted, http>>

\* time passes
Tick ==
    /\ now + window \div 2 <= MaxNow
    /\ now' = now + window \div 2
    /\ limited' = NoCheck
    /\ UNCHANGED <<fakerRandom, pyRandom, engineVars, requests, accepted, http>>

RateNext == CheckRateLimit \/ CleanupOldEntries \/ Tick

RateSpec == RateInit /\ [][RateNext]_vars

(***************************************************************************)
(* The server.  Connections are numbered in the order the server accepted  *)
(* them.  Receive is the arrival of a validated request, which then waits  *)
(* for the event loop; Handle is one run of the handler coroutine.  With a *)
(* request the model keeps the reply the handler would give if it ran at   *)
(* the moment of arrival, before any request that is waiting with it.      *)
(***************************************************************************)
Receive ==
    \E c \in Connections, client \in ServerClients, body \in GenerateRequest :
       /\ http[c].state = "closed"
       /\ \A d \in Connections : d < c => http[d].state # "closed"
       /\ \E r \in {generate(client, body, requests, now, fakerRandom, pyRandom)} :
             http' = [http EXCEPT ![c] = [state |-> "waiting", client |-> client,
                                          body |-> body, alone |-> r,
                                          response |-> NoReply]]
       /\ UNCHANGED <<fakerRandom, pyRandom, engineVars, limiterVars>>

Handle ==
    \E c \in Connections :
       /\ http[c].state = "waiting"
       /\ \E r \in {generate(http[c].client, http[c].body, requests, now,
                             fakerRandom, pyRandom)} :
             /\ http' = [http EXCEPT ![c].state = "answered", ![c].response = r]
             /\ requests' = r.requests
             /\ fakerRandom' = r.f
             /\ pyRandom' = r.p
       /\ UNCHANGED <<engineVars, now, limited, accepted>>

ServerNext == Receive \/ Handle

ServerSpec == Init /\ [][ServerNext]_vars

(***************************************************************************)
(* Vocabulary of the properties.                                           *)
(***************************************************************************)
Generated == call.op = "generate"
Resolved == call.op = "resolve"

Known(field_type) == field_type \in DOMAIN FIELD_REGISTRY

HasUnknownType(schema) == \E i \in 1 .. Len(schema) : ~Known(FieldType(schema[i][2]))

UnknownFieldType(res) ==
    ~res.ok /\ res.exc = "ValueError" /\ Len(res.msg) = 2
            /\ res.msg[1] = "Unknown field type: "

\* the keys of a record, and the field names of a schema, in order
Keys(items) == [i \in 1 .. Len(items) |-> items[i][1]]

\* C1: a call of generate_data with a seed, made again with the same schema,
\* count and seed, returns the same list of records as the call before.
C1_SeededBatchIsDeterministic ==
    (Generated /\ call.seed.given /\ previous.given) =>
        (result.ok = previous.ok /\ result.records = previous.records)

\* C2: a call of generate_data (count >= 1) on a schema with an entry whose
\* type is not in the registry ends in the unknown-field-type error and
\* returns no record.
C2_UnknownTypeAborts ==
    (Generated /\ HasUnknownType(call.schema)) =>
        UnknownFieldType(result) /\ result.records = <<>>

\* C3: a call of generate_data on a schema whose types are all in the
\* registry returns exactly count records, each with exactly the schema's
\* field names as keys.
C3_CountContract ==
    (Generated /\ ~HasUnknownType(call.schema)) =>
        /\ result.ok
        /\ Len(result.records) = call.count
        /\ \A k \in 1 .. Len(result.records) :
              {result.records[k][i][1] : i \in 1 .. Len(result.records[k])}
                 = {call.schema[i][1] : i \in 1 .. Len(call.schema)}

\* the calls of generate_field_value a batch makes, in order
Resolutions(trace) == SelectSeq(trace, LAMBDA e : e.op = "resolve")

\* record 1: field 1..n, record 2: field 1..n, ...
RecordsOuterFieldsInner(schema, count) ==
    [j \in 1 .. (count * Len(schema)) |->
        ResolveEvent(((j - 1) \div Len(schema)) + 1,
                     schema[((j - 1) % Len(schema)) + 1][1])]

\* C4: every returned record has the schema's field names as keys in the
\* schema's order, and the batch resolves records outer, fields inner, once
\* per field per record: the resolutions made are a prefix of that order,
\* and all of it when the batch is returned.
C4_OrderPreserved ==
    Generated =>
        LET made == Resolutions(result.trace)
            want == RecordsOuterFieldsInner(call.schema, call.count)
        IN  /\ \A k \in 1 .. Len(result.records) :
                  Keys(result.records[k]) = Keys(call.schema)
            /\ Len(made) <= Len(want)
            /\ made = SubSeq(want, 1, Len(made))
            /\ result.ok => made = want

C4_Witness ==
    /\ Generated /\ result.ok
    /\ call.count >= 2 /\ Len(call.schema) >= 2
    /\ call.schema[1][1] = "b" /\ call.schema[2][1] = "a"
    /\ Len(result.records) = call.count

\* C5: generate_field_value returns a value, and raises nothing, for every
\* field type of the registry and every constraints mapping.
C5_OnlyUnknownTypeRaises ==
    (Resolved /\ Known(call.field_type)) => result.ok

\* the constraints select one of the special cases of lines 582-590
SpecialCase(field_type, constraints) ==
    /\ constraints.given
    /\ DOMAIN constraints.map # {}
    /\ \/ /\ field_type = "email"
          /\ "domain" \in DOMAIN constraints.map
          /\ Truthy(constraints.map["domain"])
       \/ field_type = "enum" /\ "values" \in DOMAIN constraints.map
       \/ field_type = "dob"

\* C6: without a special case, the generator is called first with the fixed
\* arguments overridden by the caller's non-null constraints; when it takes
\* that call its value is returned, and when it rejects it the generator is
\* called once more with no argument at all and that value is returned; no
\* error reaches the caller.
C6_ConstraintFallback ==
    (Resolved /\ Known(call.field_type)
              /\ ~SpecialCase(call.field_type, call.constraints)) =>
        LET cfg == FIELD_REGISTRY[call.field_type]
            c == call.constraints.map
            supplied == {k \in DOMAIN c : c[k] # NoneVal}
            first == result.invoked[1]
        IN  /\ result.ok
            /\ Len(result.invoked) >= 1
            /\ DOMAIN first = (DOMAIN cfg.faker_args) \cup supplied
            /\ \A k \in DOMAIN first :
                  first[k] = IF k \in supplied THEN c[k] ELSE cfg.faker_args[k]
            /\ IF Accepts(cfg.faker_method, first)
               THEN /\ Len(result.invoked) = 1
                    /\ result.value =
                          Normalize(Produce(cfg.faker_method, cfg.locale, first, call.f0))
               ELSE /\ result.invoked = <<first, EmptyDict>>
                    /\ result.value =
                          Normalize(Produce(cfg.faker_method, cfg.locale, EmptyDict,
                                            call.f0))

C6_Witness ==
    /\ Resolved /\ call.field_type = "gender"
    /\ "bogus" \in DOMAIN call.constraints.map
    /\ result.ok /\ Len(result.invoked) = 2
    /\ result.value.s \in {<<"a">>, <<"b">>, <<"c">>}

DigitValue(ch) == CHOOSE d \in 0 .. 9 : DigitChar(d) = ch

RECURSIVE ParseInt(_)
ParseInt(chars) ==
    IF chars = <<>> THEN 0
    ELSE 10 * ParseInt(SubSeq(chars, 1, Len(chars) - 1)) + DigitValue(chars[Len(chars)])

\* the age a date of birth implies on the day of generation
AgeOf(v) == IF v.kind = "date" THEN v.n ELSE ParseInt(Tail(v.s))

\* the bound a dob call asks for: the caller's, or the registry's default
AgeBound(constraints, name, default) ==
    IF constraints.given /\ name \in DOMAIN constraints.map
    THEN constraints.map[name].n ELSE default

\* C7: every value resolved for a dob field implies an age within
\* [min_age, max_age], with 18 and 90 for the bounds the caller does not give.
C7_DobAgeWithinBounds ==
    (Resolved /\ call.field_type = "dob" /\ result.ok) =>
        /\ AgeBound(call.constraints, "min_age", 18) <= AgeOf(result.value)
        /\ AgeOf(result.value) <= AgeBound(call.constraints, "max_age", 90)

\* C8: a date- or date-time-valued field is returned as an ISO string on
\* every path, and no record holds a raw date object.
C8_IsoOnEveryPath ==
    /\ (Resolved /\ result.ok /\ call.field_type \in {"dob", "created_at"}) =>
          result.value.kind = "str"
    /\ Generated =>
          \A k \in 1 .. Len(result.records) : \A i \in 1 .. Len(result.records[k]) :
              ~HasIsoformat(result.records[k][i][2])

\* the comma-separated tokens of a string, each stripped
Tokens(chars) == {strip(split(chars, ",")[i]) : i \in 1 .. Len(split(chars, ","))}

EnumWithValues ==
    /\ Resolved /\ call.field_type = "enum"
    /\ call.constraints.given /\ "values" \in DOMAIN call.constraints.map
    /\ call.constraints.map["values"].kind = "str"

\* C9: an enum field with a comma-separated string of values resolves to one
\* of the stripped tokens of the string, and every token is resolved from
\* some state of the random source.
C9_EnumValues ==
    EnumWithValues =>
        LET tokens == Tokens(call.constraints.map["values"].s)
        IN  /\ result.ok /\ result.value.kind = "str"
            /\ result.value.s \in tokens
            /\ \A tok \in tokens : \E p \in RandStates :
                  generate_field_value(call.field_type, call.constraints,
                                       call.f0, p).value = PyStr(tok)

C9_Witness ==
    /\ EnumWithValues
    /\ call.constraints.map["values"] = CsvText
    /\ result.ok /\ result.value = PyStr(<<"B">>)

EmailWithDomain ==
    /\ Resolved /\ call.field_type = "email"
    /\ call.constraints.given /\ "domain" \in DOMAIN call.constraints.map
    /\ call.constraints.map["domain"].kind = "str"

\* the value is a generated username, "@" and the domain, and the email
\* generator of the registry was not called
DomainHonoured ==
    /\ result.ok /\ result.value.kind = "str"
    /\ \E i \in 1 .. Len(UserNames) :
          result.value.s = UserNames[i] \o <<"@">> \o call.constraints.map["domain"].s
    /\ result.invoked = <<>>

\* C10 as stated: for every string d given as the domain constraint of an
\* email field, the value is username@d and the email generator is bypassed.
C10_DomainOverrideAnyString == EmailWithDomain => DomainHonoured

\* C10: for every non-empty string d given as the domain constraint of an
\* email field, the value is username@d and the email generator is bypassed.
C10_DomainOverrideNonEmpty ==
    (EmailWithDomain /\ call.constraints.map["domain"].s # <<>>) => DomainHonoured

C10_Witness ==
    /\ EmailWithDomain
    /\ call.constraints.map["domain"] = DomainText
    /\ result.value = PyStr(<<"u", "2", "@", "t", ".", "c">>)

(***************************************************************************)
(* The error of an unknown field type, as raised and as returned.          *)
(***************************************************************************)
Answered(c) == http[c].state = "answered"

\* the exception e is the one generate_field_value raises for an unknown type
RaisedUnknownType(e) ==
    e.exc = "ValueError" /\ Len(e.msg) = 2 /\ e.msg[1] = "Unknown field type: "

\* the first entry of the schema whose type is not in the registry
Offending(schema) ==
    schema[CHOOSE i \in 1 .. Len(schema) :
              /\ ~Known(FieldType(schema[i][2]))
              /\ \A j \in 1 .. (i - 1) : Known(FieldType(schema[j][2]))]

\* the text is one of the pieces the message is made of
Mentions(parts, text) == \E i \in 1 .. Len(parts) : parts[i] = text

NamesEntry(parts, entry) ==
    Mentions(parts, entry[1]) /\ Mentions(parts, FieldType(entry[2]))

\* C11: when a request is answered with the error of an unknown field type,
\* the message of the exception generate_data raised and the detail of the
\* HTTP error both contain the name and the type of the offending schema entry.
C11_ErrorNamesFieldAndType ==
    \A c \in Connections :
       (Answered(c) /\ RaisedUnknownType(http[c].response.e)) =>
          /\ http[c].response.status = 400
          /\ NamesEntry(http[c].response.e.msg, Offending(http[c].body.schema))
          /\ NamesEntry(http[c].response.detail, Offending(http[c].body.schema))

(***************************************************************************)
(* Requests in flight together.                                            *)
(***************************************************************************)
\* what the client sees of a reply
Visible(reply) ==
    [status |-> reply.status, detail |-> reply.detail, media |-> reply.media,
     data |-> reply.data, count |-> reply.count, content |-> reply.content]

Received(c) == http[c].state # "closed"

\* C12: when every request the server has received specifies a seed, each
\* answered request got the reply the handler would have given it had it run
\* alone at its arrival, whatever the order the waiting requests were handled in.
C12_NoCrossRequestInterference ==
    (\A c \in Connections : Received(c) => http[c].body.seed.given) =>
       \A c \in Connections :
          Answered(c) => Visible(http[c].response) = Visible(http[c].alone)

(***************************************************************************)
(* Seeding within one call of generate_data.                               *)
(***************************************************************************)
SeedEvents(trace) == SelectSeq(trace, LAMBDA e : e.op = "seed")

\* the draws one resolution of the entry takes from the shared Faker source
FakerDraws(field_def) ==
    generate_field_value(FieldType(field_def), Constraints(field_def), 0, 0).f

RECURSIVE DrawsPerRecord(_)
DrawsPerRecord(schema) ==
    IF schema = <<>> THEN 0
    ELSE FakerDraws(Head(schema)[2]) + DrawsPerRecord(Tail(schema))

\* the state of the shared Faker source the first resolution of the call finds
StartOfCall == IF call.seed.given THEN FakerSeed(call.seed.n) ELSE call.f0

\* C13: in a call of generate_data with a seed the shared random source is
\* re-initialized once, before the first field of the first record is
\* resolved; in a call without a seed it is not re-initialized.  The batch
\* draws on from that one starting state (the seeded state, or the state
\* earlier calls left) through all its records and fields.
C13_SeedOnceBeforeFirstField ==
    Generated =>
       /\ Len(SeedEvents(result.trace)) = (IF call.seed.given THEN 1 ELSE 0)
       /\ call.seed.given => Head(result.trace) = SeedEvent
       /\ result.ok =>
             fakerRandom = (StartOfCall + call.count * DrawsPerRecord(call.schema)) % RandMod

C13_Witness ==
    /\ Generated /\ result.ok
    /\ call.seed.given /\ call.f0 # FakerSeed(call.seed.n)
    /\ call.count = MaxCount /\ Len(call.schema) = 2
    /\ DrawsPerRecord(call.schema) = 2
    /\ Len(result.trace) = 1 + 2 * MaxCount
    /\ previous.given

(***************************************************************************)
(* The rate limiter.                                                       *)
(***************************************************************************)
ClientKeys == {ClientIp(client) : client \in Clients}

\* how many of the times are less than one window before t
Recent(times, t) == Cardinality({i \in 1 .. Len(times) : t - times[i] < window})

\* how many of the times are t
Count(times, t) == Cardinality({i \in 1 .. Len(times) : times[i] = t})

AtMostMaxRequests == \A ip \in DOMAIN requests : Len(requests[ip]) <= max_requests

\* a step that is a call of check_rate_limit for the key limited'.ip at time now
CheckedRateLimit ==
    limited'.op = "check" =>
       /\ (limited'.status = 429) <=> ~limited'.ok
       /\ (limited'.status = 429) <=>
             (Recent(Lookup(accepted, limited'.ip), now) = max_requests)
       /\ (limited'.status = 429) =>
             /\ Count(Lookup(requests', limited'.ip), now)
                   = Count(Lookup(requests, limited'.ip), now)
             /\ Len(Lookup(requests', limited'.ip)) <= Len(Lookup(requests, limited'.ip))
       /\ \A other \in ClientKeys \ {limited'.ip} :
             /\ Lookup(requests', other) = Lookup(requests, other)
             /\ (other \in DOMAIN requests') <=> (other \in DOMAIN requests)
             /\ Lookup(accepted', other) = Lookup(accepted, other)

\* C14: the list of every client key holds at most max_requests times; a call
\* of check_rate_limit is rejected with status 429 exactly when max_requests
\* requests of its key were let through less than one window before the call;
\* a rejected call records no time; and a call for one key leaves the list of
\* every other key, and the requests counted for it, as they were.
C14_RateLimiter == []AtMostMaxRequests /\ [][CheckedRateLimit]_vars

C14_Witness ==
    \E ip \in DOMAIN requests, other \in DOMAIN requests :
       /\ ip # other
       /\ limited = [op |-> "check", ip |-> ip, ok |-> FALSE, status |-> 429]
       /\ Len(requests[ip]) = max_requests
       /\ requests[ip][1] # requests[ip][max_requests]
       /\ Len(accepted[ip]) > max_requests
       /\ requests[other] # <<>>

====
